---- MODULE Spec2Model ----
(***************************************************************************)
(* SplitItem: the generate -> upload pipelines of the split endpoint and   *)
(* of the try-on endpoint, the Celery tasks they submit, the object store  *)
(* and the Redis status records.                                           *)
(*                                                                         *)
(* Strings that the program formats or splits are sequences of tokens      *)
(* ("generated_Top_ab.jpg" is <<"generated","_","Top","_","ab",".jpg">>),  *)
(* the empty string and empty bytes are <<>>.  One behaviour serves one    *)
(* entry point, chosen in Init: a split request, a try-on request, or a    *)
(* delivery of generate_tryon_image_task.                                  *)
(***************************************************************************)
EXTENDS Integers, Sequences, FiniteSets, TLC

\* ------------------------------------------------------------ constants
\* self.retry(..., max_retries=2)
MaxRetries == 2
\* celery_task.get(timeout=120)
GetTimeout == 120
\* if len(clothing_urls) > 3
MaxClothingItems == 3

\* ------------------------------------------------------------ bounds
\* elements of the clothing_urls list of a try-on request
MaxUrlElems == 4
\* comma-separated URLs inside the first element
MaxUrlTokens == 4
\* deliveries, over all tasks of a request, of a message whose execution has
\* succeeded already
MaxRedeliveries == 1
\* distinct values of uuid4().hex[:8]
NumSuffixes == 2

\* CATEGORIES.keys(), in insertion order
Categories == <<"Top", "Bot">>

CategoryKeys == {Categories[i] : i \in 1..Len(Categories)}

UrlPool == <<"u1", "u2", "u3", "u4", "u5", "u6", "u7", "u8", "u9", "u10">>

SuffixPool == <<"a1", "b2", "c3", "d4">>

Suffixes == {SuffixPool[i] : i \in 1..NumSuffixes}

\* settings.MINIO_PUBLIC_BUCKET_NAME
Bucket == "sop"

\* ------------------------------------------------------------ strings
RECURSIVE SplitOn(_, _)
\* str.split(sep): the fields of s between the occurrences of sep
SplitOn(s, sep) ==
    IF s = <<>> THEN << <<>> >>
    ELSE LET rest == SplitOn(Tail(s), sep)
         IN  IF Head(s) = sep
             THEN << <<>> >> \o rest
             ELSE << <<Head(s)>> \o Head(rest) >> \o Tail(rest)

\* not v.strip(): only whitespace, or nothing
IsBlank(s) == \A i \in 1..Len(s) : s[i] = " "

\* a file name without the leading "generated" field
SplitFileNameNoPrefix(category_name, suffix) ==
    <<category_name, "_", suffix, ".jpg">>

\* f"generated_{category_name}_{uuid.uuid4().hex[:8]}.jpg"
SplitFileName(category_name, suffix) ==
    <<"generated", "_", category_name, "_", suffix, ".jpg">>

\* f"tryon_{task_id}.jpg"
TryonFileName(task_id) == <<"tryon", "_", task_id, ".jpg">>

\* the category read one field too early: file_name.split("_")[0]
CategoryOfFileNameOffByOne(file_name) == SplitOn(file_name, "_")[1]

\* category = file_name.split("_")[1]
CategoryOfFileName(file_name) == SplitOn(file_name, "_")[2]

\* generate_presigned_url(bucket_name, file_name)
PresignedUrl(bucket_name, file_name) == <<"http://", bucket_name, "/">> \o file_name

\* ------------------------------------------------------------ results
NoBytes == <<>>

NoResult ==
    [success |-> FALSE, category |-> <<>>, image_bytes |-> NoBytes, url |-> <<>>,
     filename |-> <<>>, task_id |-> <<>>, error |-> ""]

\* the bytes the generative model returns for a unit
ImageFor(unit) == <<"img", unit>>

\* ------------------------------------------------------------ tasks
GenId(c) == <<"gen", c>>

UpId(u) == <<"up", u>>

TryonTaskId == <<"tryon", "t2">>

TaskIds ==
    {GenId(c) : c \in CategoryKeys} \cup {UpId(c) : c \in CategoryKeys}
        \cup {UpId("tryon"), TryonTaskId}

\* a task nobody has submitted; log holds, per execution of the body, what the
\* body's external call did (the worker's log lines)
NoTask ==
    [state |-> "NONE", retries |-> 0, args |-> <<>>, result |-> NoResult, exc |-> "",
     log |-> <<>>, puts |-> <<>>, redelivered |-> 0]

\* AsyncResult.ready(): the states in which get() stops waiting
Terminal == {"SUCCESS", "FAILURE"}

\* the states in which a message of the task is in the queue
Runnable == {"PENDING", "RETRY"}

\* apply_async(args=[...], countdown=0)
Submitted(args) == [NoTask EXCEPT !.state = "PENDING", !.args = args]

\* a retry that compares request.retries with max_retries one too late
RetryOnceMore(t, exc) ==
    IF t.retries <= MaxRetries
    THEN [t EXCEPT !.state = "RETRY", !.retries = @ + 1]
    ELSE [t EXCEPT !.state = "FAILURE", !.exc = exc]

\* self.retry(exc=e, countdown=5, max_retries=2): requeue the task with
\* request.retries + 1, or raise exc (state FAILURE) once request.retries has
\* reached max_retries
Retry(t, exc) ==
    IF t.retries < MaxRetries
    THEN [t EXCEPT !.state = "RETRY", !.retries = @ + 1]
    ELSE [t EXCEPT !.state = "FAILURE", !.exc = exc]

\* ------------------------------------------------------------ status tracker
TrackIds == {"t1", "t2"}

\* a hash that does not exist: every field absent
NoRecord ==
    [status |-> "", error |-> "", updated_at |-> -1, result_url |-> <<>>,
     created_at |-> -1]

\* the record of a task whose submitter has registered it
PendingRecord == [NoRecord EXCEPT !.status = "pending", !.created_at = 0]

\* a failure write that replaces the hash instead of merging into it
HsetFailedReplacing(trk, task_id, err, at) ==
    [trk EXCEPT ![task_id] =
        [NoRecord EXCEPT !.status = "failed", !.error = err, !.updated_at = at]]

\* redis_client.hset(f"tryon_task:{task_id}", mapping={status, error, updated_at})
HsetFailed(trk, task_id, err, at) ==
    [trk EXCEPT ![task_id] =
        [@ EXCEPT !.status = "failed", !.error = err, !.updated_at = at]]

\* ------------------------------------------------------------ object store
\* upload_bytes_to_minio(file_bytes, bucket_name, object_name, content_type)
PutObject(objects, bucket_name, object_name, file_bytes) ==
    {o \in objects : ~(o.bucket = bucket_name /\ o.key = object_name)}
        \cup {[bucket |-> bucket_name, key |-> object_name, bytes |-> file_bytes]}

VARIABLES
    reqKind,            \* which entry point this behaviour serves
    pc,                 \* position of the request handler
    idx,                \* loop index of the handler's current for loop
    generation_tasks,   \* [(category_name, celery_task)]
    generated_results,  \* {category_name: result}, in insertion order
    upload_tasks,       \* [(category_name, celery_task)]
    generated_items,    \* results of the successful uploads
    response,           \* the HTTP response of the request
    task,               \* the Celery tasks: state, request.retries, args, result
    waited,             \* per task handle: how the handler's get() on it ended
    store,              \* MinIO: set of [bucket, key, bytes]
    tracker,            \* Redis hashes tryon_task:{task_id}
    now,                \* datetime.utcnow(), advanced by every tracker write
    timeoutSeconds,     \* seconds each fan-in stage spent in waits that timed out
    human_image,        \* the uploaded image of the request (image_file, human_image)
    clothing_urls,      \* the clothing_urls of a try-on request
    tryon,              \* locals of create_tryon_request
    handlerLog,         \* the failure lines the request handler has printed
    generativeCalls,    \* the calls of the generative model: where, for which unit
    awaits              \* how often the handler has called get() on each handle

vars ==
    <<reqKind, pc, idx, generation_tasks, generated_results, upload_tasks,
      generated_items, response, task, waited, store, tracker, now,
      timeoutSeconds, human_image, clothing_urls, tryon, handlerLog, generativeCalls, awaits>>

splitVars ==
    <<idx, generation_tasks, generated_results, upload_tasks, generated_items,
      timeoutSeconds>>

inputVars == <<reqKind, human_image, clothing_urls>>

envVars == <<handlerLog, generativeCalls>>

NoResponse == [code |-> 0, success |-> FALSE, items |-> <<>>, url |-> <<>>, error |-> ""]

\* ------------------------------------------------------------ responses
\* split_image: return {"success": True, "message": ..., "items": generated_items}
SplitOk(items) == [NoResponse EXCEPT !.code = 200, !.success = TRUE, !.items = items]

\* raise HTTPException(status_code=500, detail=...)
ServerError(msg) == [NoResponse EXCEPT !.code = 500, !.error = msg]

\* raise HTTPException(status_code=400, detail={"error": str(e)})
ClientError(msg) == [NoResponse EXCEPT !.code = 400, !.error = msg]

\* ------------------------------------------------------------ waiting
\* celery_task.get(timeout=120): the task's return value once it has succeeded,
\* the task's exception re-raised in the caller once it has failed, and
\* TimeoutError while it is neither
GetOutcome(t) ==
    CASE t.state = "SUCCESS" -> "result"
      [] t.state = "FAILURE" -> "raised"
      [] OTHER -> "timeout"

\* the success check left out: every result that get() returns is kept
SucceededUnchecked(outcome, result) == outcome = "result"

\* result and result.get("success")
Succeeded(outcome, result) == outcome = "result" /\ result.success

\* a fan-in loop that stops at the first handle whose get() raises
NextHandleUntilRaise(outcome, i, n) == IF outcome = "result" /\ i < n THEN i + 1 ELSE 0

\* a fan-in loop that waits again on a handle whose get() timed out
NextHandleAgainOnTimeout(outcome, i, n) ==
    IF outcome = "timeout" THEN i ELSE IF i < n THEN i + 1 ELSE 0

\* a fan-in loop that gives up the handles after one whose get() timed out
NextHandleUntilTimeout(outcome, i, n) == IF outcome # "timeout" /\ i < n THEN i + 1 ELSE 0

\* except Exception: continue -- the fan-in loop goes on to handle i + 1 of n
\* whatever get() did on handle i; 0 when the loop is over
NextHandle(outcome, i, n) == IF i < n THEN i + 1 ELSE 0

\* d[k] = v on a dict kept as its (key, value) pairs in insertion order
DictSet(d, k, v) ==
    IF \E i \in 1..Len(d) : d[i][1] = k
    THEN [i \in 1..Len(d) |-> IF d[i][1] = k THEN <<k, v>> ELSE d[i]]
    ELSE Append(d, <<k, v>>)

\* ------------------------------------------------------------ workers
\* what client.models.generate_content_stream does in one call
GeminiOutcomes == {"image", "empty", "network", "quota"}

\* an exception, as the value of the call that raised it
Raised(e) == <<"raise", e>>

IsRaised(v) == Len(v) = 2 /\ v[1] = "raise"

\* for chunk in client.models.generate_content_stream(...): the data of the last
\* chunk that carried some, b"" when none did, or the exception of the call
GenerateContentStream(outcome, category) ==
    CASE outcome = "image" -> ImageFor(category)
      [] outcome = "empty" -> NoBytes
      [] OTHER -> Raised(outcome)

\* generate_image_from_bytes: try: ... return image_bytes if image_bytes else b""
\* except Exception: return b""
generate_image_from_bytes(outcome, category) ==
    LET image_bytes == GenerateContentStream(outcome, category)
    IN  IF IsRaised(image_bytes) THEN NoBytes ELSE image_bytes

\* generate_image_task body: {"success": False, ...} on empty bytes, the image
\* otherwise, self.retry when generate_image_from_bytes raises
generate_image_task(t, outcome) ==
    LET generated_image_bytes == generate_image_from_bytes(outcome, t.args.category)
        logged == [t EXCEPT !.log = Append(@, outcome)]
    IN  CASE IsRaised(generated_image_bytes) -> Retry(logged, outcome)
          [] generated_image_bytes = NoBytes ->
                [logged EXCEPT !.state = "SUCCESS",
                               !.result = [NoResult EXCEPT !.category = <<t.args.category>>]]
          [] OTHER ->
                [logged EXCEPT !.state = "SUCCESS",
                               !.result = [NoResult EXCEPT
                                              !.success = TRUE,
                                              !.category = <<t.args.category>>,
                                              !.image_bytes = generated_image_bytes]]

\* a worker executes generate_image_task for category c
GenerateImageTask(c) ==
    /\ task[GenId(c)].state \in Runnable
    /\ \E outcome \in GeminiOutcomes :
           task' = [task EXCEPT ![GenId(c)] = generate_image_task(@, outcome)]
    /\ generativeCalls' = generativeCalls \cup {<<"worker", c>>}
    /\ UNCHANGED <<inputVars, pc, splitVars, response, waited, store, tracker, now, tryon,
                   handlerLog, awaits>>

\* what upload_bytes_to_minio does: True, False, or an exception
PutOutcomes == {"ok", "false", "raise"}

\* what generate_presigned_url does: the URL, or an exception
PresignOutcomes == {"ok", "raise"}

\* upload_image_task body: the task after the execution
upload_image_task(t, put, presign) ==
    LET a == t.args
        logged == [t EXCEPT !.log = Append(@, IF put = "ok" /\ presign = "raise"
                                              THEN "presign" ELSE put),
                            !.puts = IF put = "ok" THEN Append(@, a.file_name) ELSE @]
    IN  CASE put = "raise" -> Retry(logged, "S3Error")
          [] put = "false" ->
                [logged EXCEPT !.state = "SUCCESS",
                               !.result = [NoResult EXCEPT !.filename = a.file_name]]
          [] put = "ok" /\ presign = "raise" -> Retry(logged, "S3Error")
          [] OTHER ->
                [logged EXCEPT !.state = "SUCCESS",
                               !.result =
                                   [NoResult EXCEPT
                                       !.success = TRUE,
                                       !.category = CategoryOfFileName(a.file_name),
                                       !.url = PresignedUrl(a.bucket_name, a.file_name),
                                       !.filename = a.file_name]]

\* an upload that, after a first execution, derives a key of its own for the
\* attempt
upload_image_store_per_attempt(objects, t, put) ==
    IF put = "ok"
    THEN PutObject(objects, t.args.bucket_name,
                   IF t.log = <<>> THEN t.args.file_name
                   ELSE t.args.file_name \o <<"again">>,
                   t.args.image_bytes)
    ELSE objects

\* upload_image_task body: the bucket after the execution
upload_image_store(objects, t, put) ==
    IF put = "ok"
    THEN PutObject(objects, t.args.bucket_name, t.args.file_name, t.args.image_bytes)
    ELSE objects

UploadIds == {UpId(c) : c \in CategoryKeys} \cup {UpId("tryon")}

\* a worker executes upload_image_task for handle h
UploadImageTask(h) ==
    /\ task[h].state \in Runnable
    /\ \E put \in PutOutcomes, presign \in PresignOutcomes :
           /\ task' = [task EXCEPT ![h] = upload_image_task(@, put, presign)]
           /\ store' = upload_image_store(store, task[h], put)
    /\ UNCHANGED <<inputVars, pc, splitVars, response, waited, tracker, now, tryon,
                   envVars, awaits>>

\* the bytes another split request has generated for a unit
OtherImageFor(unit) == <<"other", unit>>

\* an execution for another request whose result the backend files under the
\* handle of this request's upload of the same category
OtherRequestUploadTaskOnSharedHandle ==
    /\ \E category_name \in CategoryKeys :
           /\ task[UpId(category_name)].state \in Runnable
           /\ store' = PutObject(store, Bucket, task[UpId(category_name)].args.file_name,
                                 OtherImageFor(category_name))
           /\ task' = [task EXCEPT ![UpId(category_name)] =
                          [@ EXCEPT !.state = "SUCCESS",
                                    !.result =
                                        [NoResult EXCEPT
                                            !.filename =
                                                task[UpId(category_name)].args.file_name]]]
    /\ UNCHANGED <<inputVars, pc, splitVars, response, waited, tracker, now, tryon,
                   handlerLog, generativeCalls, awaits>>

\* a worker executes upload_image_task for an upload another split request has
\* submitted to the same bucket. Its key is generated_{category}_{8 hex digits}.jpg
\* with digits that request has drawn; only the executions whose digits are those
\* of an upload of this request are modelled, the others write keys that nothing
\* here reads
OtherRequestUploadTask ==
    /\ \E category_name \in CategoryKeys, suffix \in Suffixes :
           /\ task[UpId(category_name)].state # "NONE"
           /\ task[UpId(category_name)].args.file_name =
                  SplitFileName(category_name, suffix)
           /\ store' = PutObject(store, Bucket, SplitFileName(category_name, suffix),
                                 OtherImageFor(category_name))
           /\ store' # store
    /\ UNCHANGED <<inputVars, pc, splitVars, response, task, waited, tracker, now, tryon,
                   handlerLog, generativeCalls, awaits>>

\* task_time_limit: the worker kills an execution that runs too long and the
\* task fails with TimeLimitExceeded, without retry
TimeLimitKill(h) ==
    /\ task[h].state \in Runnable
    /\ task' = [task EXCEPT ![h] = [@ EXCEPT !.state = "FAILURE",
                                             !.exc = "TimeLimitExceeded",
                                             !.log = Append(@, "killed")]]
    /\ UNCHANGED <<inputVars, pc, splitVars, response, waited, store, tracker, now, tryon,
                   envVars, awaits>>

\* ------------------------------------------------------------ split request
\* generate_and_upload_images returns generated_items and split_image answers
SplitReturn(items) ==
    /\ pc' = "done"
    /\ response' = SplitOk(items)

\* an exception leaves generate_and_upload_images; split_image prints it and
\* answers 500
SplitRaise(msg) ==
    /\ pc' = "done"
    /\ response' = ServerError(msg)
    /\ handlerLog' = handlerLog \cup {<<"split_image", "ERROR", msg>>}

\* _validate_and_convert_image: the JPEG conversion of the content, or, when
\* opening or converting raises, the content as it came; it never raises
_validate_and_convert_image(file_content) ==
    IF file_content \in {"jpeg", "gif", "small"}
    THEN <<"converted", file_content>>
    ELSE <<"original", file_content>>

\* the uploads of a split request: a photo, bytes that are no image, and an
\* image below 100x100
SplitImages == {"jpeg", "garbage", "small"}

\* the line generate_and_upload_images prints for a unit that is left out
SplitFailureLine(stage, outcome, category_name) ==
    IF outcome = "result"
    THEN <<"generate_and_upload_images", stage \o " failed", category_name>>
    ELSE <<"generate_and_upload_images", "ERROR waiting " \o stage, category_name>>

\* a submission loop that ends after its first entry
NextCategoryFirstOnly(i, n) == 0

\* for category_name in CATEGORIES.keys(): the position after entry i of n, 0
\* when the loop is over
NextCategory(i, n) == IF i < n THEN i + 1 ELSE 0

\* an upload loop that does not move on from an entry while others follow
NextResultRepeating(i, n) == IF i < n THEN i ELSE 0

\* for category_name, gen_result in generated_results.items(): the position
\* after entry i of n, 0 when the loop is over
NextResult(i, n) == IF i < n THEN i + 1 ELSE 0

\* for category_name in CATEGORIES.keys(): generate_image_task.apply_async(...)
SplitSubmitGen ==
    /\ reqKind = "split" /\ pc = "submit_gen"
    /\ LET category_name == Categories[idx]
       IN  \/ /\ task' = [task EXCEPT ![GenId(category_name)] =
                              Submitted([file_bytes |->
                                             _validate_and_convert_image(human_image),
                                         category |-> category_name])]
              /\ generation_tasks' =
                     Append(generation_tasks, <<category_name, GenId(category_name)>>)
              /\ IF NextCategory(idx, Len(Categories)) # 0
                 THEN idx' = NextCategory(idx, Len(Categories)) /\ pc' = pc
                 ELSE idx' = 1 /\ pc' = "wait_gen"
              /\ UNCHANGED <<response, handlerLog>>
           \/ /\ SplitRaise("OperationalError")
              /\ UNCHANGED <<task, generation_tasks, idx>>
    /\ UNCHANGED <<inputVars, generated_results, upload_tasks, generated_items, waited,
                   store, tracker, now, timeoutSeconds, tryon, generativeCalls, awaits>>

\* for category_name, celery_task in generation_tasks: celery_task.get(timeout=120)
SplitWaitGen ==
    /\ reqKind = "split" /\ pc = "wait_gen"
    /\ LET category_name == generation_tasks[idx][1]
           celery_task == generation_tasks[idx][2]
           outcome == GetOutcome(task[celery_task])
           result == task[celery_task].result
           results ==
               IF Succeeded(outcome, result)
               THEN DictSet(generated_results, category_name, result)
               ELSE generated_results
       IN  /\ waited' = [waited EXCEPT ![celery_task] = outcome]
           /\ awaits' = [awaits EXCEPT ![celery_task] = @ + 1]
           /\ generated_results' = results
           /\ handlerLog' =
                  IF Succeeded(outcome, result)
                  THEN handlerLog
                  ELSE handlerLog \cup {SplitFailureLine("Generation", outcome,
                                                         category_name)}
           /\ timeoutSeconds' =
                  IF outcome = "timeout"
                  THEN [timeoutSeconds EXCEPT !.gen = @ + GetTimeout]
                  ELSE timeoutSeconds
           /\ IF NextHandle(outcome, idx, Len(generation_tasks)) # 0
              THEN /\ idx' = NextHandle(outcome, idx, Len(generation_tasks))
                   /\ UNCHANGED <<pc, response>>
              ELSE /\ idx' = 1
                   /\ IF results = <<>>
                      THEN SplitReturn(generated_items)
                      ELSE pc' = "submit_up" /\ UNCHANGED response
    /\ UNCHANGED <<inputVars, generation_tasks, upload_tasks, generated_items, task,
                   store, tracker, now, tryon, generativeCalls>>

\* for category_name, gen_result in generated_results.items():
\*     upload_image_task.apply_async(...)
SplitSubmitUp ==
    /\ reqKind = "split" /\ pc = "submit_up"
    /\ LET category_name == generated_results[idx][1]
           image_bytes == generated_results[idx][2].image_bytes
       IN  \/ /\ \E suffix \in Suffixes :
                     LET file_name == SplitFileName(category_name, suffix)
                         tasks ==
                             IF image_bytes = NoBytes
                             THEN upload_tasks
                             ELSE Append(upload_tasks, <<category_name, UpId(category_name)>>)
                     IN  /\ task' =
                                IF image_bytes = NoBytes
                                THEN task
                                ELSE [task EXCEPT ![UpId(category_name)] =
                                         Submitted([image_bytes |-> image_bytes,
                                                    file_name |-> file_name,
                                                    bucket_name |-> Bucket])]
                         /\ upload_tasks' = tasks
                         /\ IF NextResult(idx, Len(generated_results)) # 0
                            THEN /\ idx' = NextResult(idx, Len(generated_results))
                                 /\ UNCHANGED <<pc, response>>
                            ELSE /\ idx' = 1
                                 /\ IF tasks = <<>>
                                    THEN SplitReturn(generated_items)
                                    ELSE pc' = "wait_up" /\ UNCHANGED response
              /\ UNCHANGED handlerLog
           \/ /\ image_bytes # NoBytes
              /\ SplitRaise("OperationalError")
              /\ UNCHANGED <<task, upload_tasks, idx>>
    /\ UNCHANGED <<inputVars, generation_tasks, generated_results, generated_items,
                   waited, store, tracker, now, timeoutSeconds, tryon,
                   generativeCalls, awaits>>

\* for category_name, celery_task in upload_tasks: celery_task.get(timeout=120)
SplitWaitUp ==
    /\ reqKind = "split" /\ pc = "wait_up"
    /\ LET category_name == upload_tasks[idx][1]
           celery_task == upload_tasks[idx][2]
           outcome == GetOutcome(task[celery_task])
           result == task[celery_task].result
           items ==
               IF Succeeded(outcome, result)
               THEN Append(generated_items, result)
               ELSE generated_items
       IN  /\ waited' = [waited EXCEPT ![celery_task] = outcome]
           /\ awaits' = [awaits EXCEPT ![celery_task] = @ + 1]
           /\ generated_items' = items
           /\ handlerLog' =
                  IF Succeeded(outcome, result)
                  THEN handlerLog
                  ELSE handlerLog \cup {SplitFailureLine("Upload", outcome, category_name)}
           /\ timeoutSeconds' =
                  IF outcome = "timeout"
                  THEN [timeoutSeconds EXCEPT !.up = @ + GetTimeout]
                  ELSE timeoutSeconds
           /\ IF NextHandle(outcome, idx, Len(upload_tasks)) # 0
              THEN /\ idx' = NextHandle(outcome, idx, Len(upload_tasks))
                   /\ UNCHANGED <<pc, response>>
              ELSE idx' = 1 /\ SplitReturn(items)
    /\ UNCHANGED <<inputVars, generation_tasks, generated_results, upload_tasks, task,
                   store, tracker, now, tryon, generativeCalls>>

\* ------------------------------------------------------------ try-on generation
\* what the downloads and the Gemini call of generate_tryon_image do
TryonOutcomes == {"image", "download", "empty", "network"}

RedisOutcomes == {"up", "down"}

\* generate_tryon_image without "if not image_bytes: raise": an empty answer of
\* the model is returned as a success
generate_tryon_image_unchecked(task_id, outcome) ==
    IF outcome \in {"image", "empty"}
    THEN [NoResult EXCEPT !.success = TRUE, !.task_id = <<task_id>>,
                          !.image_bytes = IF outcome = "image" THEN ImageFor("tryon")
                                          ELSE NoBytes]
    ELSE [NoResult EXCEPT !.task_id = <<task_id>>, !.error = outcome]

\* generate_tryon_image: the dict it returns
generate_tryon_image(task_id, outcome) ==
    IF outcome = "image"
    THEN [NoResult EXCEPT !.success = TRUE, !.task_id = <<task_id>>,
                          !.image_bytes = ImageFor("tryon")]
    ELSE [NoResult EXCEPT !.task_id = <<task_id>>, !.error = outcome]

\* generate_tryon_image: its except branch writes the failure, unless Redis raises
generate_tryon_image_tracker(trk, task_id, outcome, redis, at) ==
    IF outcome # "image" /\ redis = "up"
    THEN HsetFailed(trk, task_id, outcome, at)
    ELSE trk

\* ------------------------------------------------------------ try-on request
HumanImages == {"jpeg", "empty", "garbage", "gif", "small"}

\* validate_human_image: raises ValueError unless the image decodes, is JPEG, PNG
\* or WebP and is at least 100x100
validate_human_image(image) ==
    CASE image = "garbage" -> "Invalid image file"
      [] image = "gif" -> "Error processing image"
      [] image = "small" -> "Error processing image"
      [] OTHER -> ""

\* clothing_urls = clothing_urls[0].split(",") if clothing_urls else []
ParseClothingUrls(urls) == IF urls # <<>> THEN SplitOn(urls[1], ",") ELSE <<>>

\* ClothingItemSchema(image_url=url) for each url, then validate_clothing_items
validate_clothing_items(urls) ==
    CASE \E i \in 1..Len(urls) : IsBlank(urls[i]) -> "image_url cannot be empty"
      [] urls = <<>> -> "At least one clothing item is required"
      [] Len(urls) > MaxClothingItems -> "Maximum 3 clothing items allowed"
      [] OTHER -> ""

\* the ValueError create_tryon_request raises before generating, "" when none
TryonValidationError(image, urls) ==
    LET parsed == ParseClothingUrls(urls)
    IN  CASE image = "empty" -> "Human image file is empty"
          [] validate_human_image(image) # "" -> validate_human_image(image)
          [] parsed = <<>> -> "At least one clothing item URL is required"
          [] Len(parsed) > MaxClothingItems -> "Maximum 3 clothing items allowed"
          [] OTHER -> validate_clothing_items(parsed)

NoTryon == [clothing_urls |-> <<>>, task_id |-> "", result |-> NoResult]

\* except ValueError: print, HTTPException(400)
TryonClientError(msg) ==
    /\ response' = ClientError(msg)
    /\ handlerLog' = handlerLog \cup {<<"create_tryon_request", "Validation error", msg>>}
    /\ pc' = "done"

\* except Exception: print, HTTPException(500)
TryonServerError(msg) ==
    /\ response' = ServerError(msg)
    /\ handlerLog' = handlerLog \cup {<<"create_tryon_request", "Error", msg>>}
    /\ pc' = "done"

\* create_tryon_request up to the call of generate_tryon_image
TryonValidate ==
    /\ reqKind = "tryon" /\ pc = "validate"
    /\ LET error == TryonValidationError(human_image, clothing_urls)
       IN  IF error # ""
           THEN /\ TryonClientError(error)
                /\ UNCHANGED tryon
           ELSE /\ tryon' = [NoTryon EXCEPT !.clothing_urls = ParseClothingUrls(clothing_urls),
                                            !.task_id = "t1"]
                /\ pc' = "generate"
                /\ UNCHANGED <<response, handlerLog>>
    /\ UNCHANGED <<inputVars, splitVars, task, waited, store, tracker, now,
                   generativeCalls, awaits>>

\* await generate_tryon_image(...), the success check, and
\* upload_image_task.apply_async(...)
TryonGenerate ==
    /\ reqKind = "tryon" /\ pc = "generate"
    /\ \E outcome \in TryonOutcomes, redis \in RedisOutcomes :
           LET result == generate_tryon_image(tryon.task_id, outcome)
           IN  /\ tracker' = generate_tryon_image_tracker(tracker, tryon.task_id, outcome,
                                                          redis, now)
               /\ now' = IF tracker' # tracker THEN now + 1 ELSE now
               /\ tryon' = [tryon EXCEPT !.result = result]
               /\ generativeCalls' = generativeCalls \cup {<<"handler", "tryon">>}
               /\ \/ /\ ~result.success
                     /\ TryonServerError(result.error)
                     /\ UNCHANGED task
                  \/ /\ result.success
                     /\ task' = [task EXCEPT ![UpId("tryon")] =
                                    Submitted([image_bytes |-> result.image_bytes,
                                               file_name |-> TryonFileName(tryon.task_id),
                                               bucket_name |-> Bucket])]
                     /\ pc' = "wait_upload"
                     /\ UNCHANGED <<response, handlerLog>>
                  \/ /\ result.success
                     /\ TryonServerError("OperationalError")
                     /\ UNCHANGED task
    /\ UNCHANGED <<inputVars, splitVars, waited, store, awaits>>

\* the upload wait without the check of the result: a failure dict of the
\* worker passes as an upload
UploadWaitErrorUnchecked(outcome, exc, upload_result) ==
    CASE outcome = "timeout" -> "TimeoutError"
      [] outcome = "raised" -> exc
      [] OTHER -> ""

\* the upload wait reporting a failed upload with the default message of the
\* generation check
UploadWaitErrorMislabelled(outcome, exc, upload_result) ==
    CASE outcome = "timeout" -> "TimeoutError"
      [] outcome = "raised" -> exc
      [] ~upload_result.success -> "Generation failed"
      [] OTHER -> ""

\* the exception that leaves the upload wait of create_tryon_request, "" when
\* none: what get(timeout=120) raises, or "Failed to upload to MinIO"
UploadWaitError(outcome, exc, upload_result) ==
    CASE outcome = "timeout" -> "TimeoutError"
      [] outcome = "raised" -> exc
      [] ~upload_result.success -> "Failed to upload to MinIO"
      [] OTHER -> ""

\* upload_task.get(timeout=120) and the rest of create_tryon_request
TryonWaitUpload ==
    /\ reqKind = "tryon" /\ pc = "wait_upload"
    /\ LET upload_task == UpId("tryon")
           outcome == GetOutcome(task[upload_task])
           upload_result == task[upload_task].result
           error == UploadWaitError(outcome, task[upload_task].exc, upload_result)
       IN  /\ waited' = [waited EXCEPT ![upload_task] = outcome]
           /\ awaits' = [awaits EXCEPT ![upload_task] = @ + 1]
           /\ IF error # ""
              THEN TryonServerError(error)
              ELSE /\ response' = [NoResponse EXCEPT !.code = 200,
                                                     !.url = upload_result.url]
                   /\ pc' = "done"
                   /\ UNCHANGED handlerLog
    /\ UNCHANGED <<inputVars, splitVars, task, store, tracker, now, tryon,
                   generativeCalls>>

\* ------------------------------------------------------------ try-on task
\* whether the body reaches generate_tryon_image, or raises before it
\* (json.loads on a bad clothing_urls_json, asyncio.new_event_loop)
BodyOutcomes == {"run", "raise"}

\* generate_tryon_image_task body: the task after the execution
generate_tryon_image_task(t, body, outcome) ==
    IF body = "raise" \/ t.args.clothing_urls_json = "invalid"
    THEN Retry([t EXCEPT !.log = Append(@, "raise")], "Exception")
    ELSE [t EXCEPT !.state = "SUCCESS",
                   !.result = generate_tryon_image(t.args.task_id, outcome),
                   !.log = Append(@, outcome)]

\* generate_tryon_image_task body: the status records after the execution
generate_tryon_image_task_tracker(trk, t, body, outcome, redis, at) ==
    IF body = "raise" \/ t.args.clothing_urls_json = "invalid"
    THEN IF redis = "up" THEN HsetFailed(trk, t.args.task_id, "Exception", at) ELSE trk
    ELSE generate_tryon_image_tracker(trk, t.args.task_id, outcome, redis, at)

\* a worker executes generate_tryon_image_task
GenerateTryonImageTask ==
    /\ task[TryonTaskId].state \in Runnable
    /\ \E body \in BodyOutcomes, outcome \in TryonOutcomes, redis \in RedisOutcomes :
           /\ task' = [task EXCEPT ![TryonTaskId] =
                          generate_tryon_image_task(@, body, outcome)]
           /\ tracker' = generate_tryon_image_task_tracker(tracker, task[TryonTaskId], body,
                                                           outcome, redis, now)
           /\ now' = IF tracker' # tracker THEN now + 1 ELSE now
           /\ generativeCalls' =
                  IF body = "raise" \/ task[TryonTaskId].args.clothing_urls_json = "invalid"
                  THEN generativeCalls
                  ELSE generativeCalls \cup {<<"worker", "tryon">>}
    /\ UNCHANGED <<inputVars, pc, splitVars, response, waited, store, tryon,
                   handlerLog, awaits>>

\* ------------------------------------------------------------ inputs
RECURSIVE CommaJoined(_, _)
\* k URLs of the pool, from the first-th on, joined by ","
CommaJoined(first, k) ==
    IF k = 1
    THEN <<UrlPool[first]>>
    ELSE <<UrlPool[first], ",">> \o CommaJoined(first + 1, k - 1)

\* a clothing_urls list of n elements: the first holds k comma-separated URLs
\* (its first URL replaced by "" or " " for the blank kinds), each other one URL
ClothingInput(n, k, kind) ==
    LET joined == CommaJoined(1, k)
        first == CASE kind = "empty" -> Tail(joined)
                   [] kind = "space" -> <<" ">> \o Tail(joined)
                   [] OTHER -> joined
    IN  <<first>> \o [i \in 1..(n - 1) |-> <<UrlPool[k + i]>>]

\* clothing_urls: None or [] (both <<>>), or a list of strings
ClothingInputs ==
    {<<>>} \cup {ClothingInput(n, k, kind) :
                    n \in 1..MaxUrlElems, k \in 1..MaxUrlTokens,
                    kind \in {"url", "empty", "space"}}

\* ------------------------------------------------------------ specification
Init ==
    /\ reqKind \in {"split", "tryon", "task"}
    /\ pc = CASE reqKind = "split" -> "submit_gen"
              [] reqKind = "tryon" -> "validate"
              [] OTHER -> "idle"
    /\ idx = 1
    /\ generation_tasks = <<>>
    /\ generated_results = <<>>
    /\ upload_tasks = <<>>
    /\ generated_items = <<>>
    /\ response = NoResponse
    /\ \E json \in {"valid", "invalid"} :
           task = [h \in TaskIds |->
                      IF reqKind = "task" /\ h = TryonTaskId
                      THEN Submitted([clothing_urls_json |-> json, task_id |-> "t2"])
                      ELSE NoTask]
    /\ waited = [h \in TaskIds |-> "no"]
    /\ store = {}
    /\ tracker \in (IF reqKind = "task"
                    THEN [TrackIds -> {NoRecord, PendingRecord}]
                    ELSE {[id \in TrackIds |-> NoRecord]})
    /\ now = 0
    /\ timeoutSeconds = [gen |-> 0, up |-> 0]
    /\ human_image \in CASE reqKind = "tryon" -> HumanImages
                         [] reqKind = "split" -> SplitImages
                         [] OTHER -> {"jpeg"}
    /\ clothing_urls \in (IF reqKind = "tryon" THEN ClothingInputs ELSE {<<>>})
    /\ tryon = NoTryon
    /\ handlerLog = {}
    /\ generativeCalls = {}
    /\ awaits = [h \in TaskIds |-> 0]

Next ==
    \/ SplitSubmitGen
    \/ SplitWaitGen
    \/ SplitSubmitUp
    \/ SplitWaitUp
    \/ TryonValidate
    \/ TryonGenerate
    \/ TryonWaitUpload
    \/ \E c \in CategoryKeys : GenerateImageTask(c)
    \/ \E h \in UploadIds : UploadImageTask(h)
    \/ GenerateTryonImageTask
    \/ \E h \in TaskIds : TimeLimitKill(h)
    \/ OtherRequestUploadTask

Spec == Init /\ [][Next]_vars

\* ------------------------------------------------------------ redelivery
\* the redeliveries so far
Redeliveries == Cardinality({<<h, i>> \in TaskIds \X (1..MaxRedeliveries) :
                                i <= task[h].redelivered})

\* task_acks_late: the message of an upload whose execution has returned is
\* delivered once more (the acknowledgement was lost) and the body runs again on
\* the same arguments; the result backend keeps the result it has stored
RedeliveredUploadImageTask(h) ==
    /\ task[h].state = "SUCCESS"
    /\ Redeliveries < MaxRedeliveries
    /\ \E put \in PutOutcomes :
           /\ store' = upload_image_store(store, task[h], put)
           /\ task' = [task EXCEPT ![h] =
                          [@ EXCEPT !.redelivered = @ + 1,
                                    !.puts = IF put = "ok"
                                             THEN Append(@, task[h].args.file_name)
                                             ELSE @]]
    /\ UNCHANGED <<inputVars, pc, splitVars, response, waited, tracker, now, tryon,
                   envVars, awaits>>

\* task_acks_late: the same for a generation whose execution has returned
RedeliveredGenerateImageTask(c) ==
    /\ task[GenId(c)].state = "SUCCESS"
    /\ Redeliveries < MaxRedeliveries
    /\ task' = [task EXCEPT ![GenId(c)] = [@ EXCEPT !.redelivered = @ + 1]]
    /\ generativeCalls' = generativeCalls \cup {<<"worker", c>>}
    /\ UNCHANGED <<inputVars, pc, splitVars, response, waited, store, tracker, now, tryon,
                   handlerLog, awaits>>

\* a split request with a well-formed image
InitRedelivery == Init /\ reqKind = "split" /\ human_image = "jpeg"

NextRedelivery ==
    \/ SplitSubmitGen
    \/ SplitWaitGen
    \/ SplitSubmitUp
    \/ SplitWaitUp
    \/ \E c \in CategoryKeys : GenerateImageTask(c)
    \/ \E h \in UploadIds : UploadImageTask(h)
    \/ \E h \in TaskIds : TimeLimitKill(h)
    \/ \E c \in CategoryKeys : RedeliveredGenerateImageTask(c)
    \/ \E h \in UploadIds : RedeliveredUploadImageTask(h)

\* a split request served by a queue that delivers messages more than once
SpecRedelivery == InitRedelivery /\ [][NextRedelivery]_vars

\* ------------------------------------------------------------ progress
\* a split or try-on request with a well-formed image
InitLive == Init /\ reqKind \in {"split", "tryon"} /\ human_image = "jpeg"

NextLive ==
    \/ SplitSubmitGen
    \/ SplitWaitGen
    \/ SplitSubmitUp
    \/ SplitWaitUp
    \/ TryonValidate
    \/ TryonGenerate
    \/ TryonWaitUpload
    \/ \E c \in CategoryKeys : GenerateImageTask(c)
    \/ \E h \in UploadIds : UploadImageTask(h)
    \/ \E h \in TaskIds : TimeLimitKill(h)

\* the steps of a handler that end by themselves: apply_async returns or raises,
\* get(timeout=120) returns or raises within its timeout, validation is local.
\* The call of the generative model inside TryonGenerate has no timeout, and no
\* worker has to run
HandlerProgress ==
    /\ WF_vars(SplitSubmitGen)
    /\ WF_vars(SplitWaitGen)
    /\ WF_vars(SplitSubmitUp)
    /\ WF_vars(SplitWaitUp)
    /\ WF_vars(TryonValidate)
    /\ WF_vars(TryonWaitUpload)

SpecLive == InitLive /\ [][NextLive]_vars /\ HandlerProgress

\* ------------------------------------------------------------ properties
\* the handler obtained a successful generation result for category c
GenOk(c) == waited[GenId(c)] = "result" /\ task[GenId(c)].result.success

\* the handler obtained a successful upload result for category c
UpOk(c) == waited[UpId(c)] = "result" /\ task[UpId(c)].result.success

\* the split request has returned its list to the caller
SplitReturned == reqKind = "split" /\ pc = "done" /\ response.code = 200

\* C1: an upload task is submitted for a unit only if the handler obtained, for
\* that unit, a generation result with success = true and non-empty image bytes,
\* and it uploads those bytes; a unit whose generation failed, raised or timed
\* out has no upload task (split pipeline and try-on request).
C1_UploadOnlyAfterGeneration ==
    /\ \A c \in CategoryKeys :
           task[UpId(c)].state # "NONE" =>
               /\ GenOk(c)
               /\ task[GenId(c)].result.image_bytes # NoBytes
               /\ task[UpId(c)].args.image_bytes = task[GenId(c)].result.image_bytes
    /\ task[UpId("tryon")].state # "NONE" =>
           /\ tryon.result.success
           /\ tryon.result.image_bytes # NoBytes
           /\ task[UpId("tryon")].args.image_bytes = tryon.result.image_bytes

\* C1 witness: Top was uploaded, the wait on Bot timed out, Bot's generation
\* succeeded afterwards, and the request ended without an upload for Bot
C1_Witness ==
    /\ SplitReturned
    /\ task[UpId("Top")].state # "NONE"
    /\ waited[GenId("Bot")] = "timeout"
    /\ task[GenId("Bot")].state = "SUCCESS" /\ task[GenId("Bot")].result.success
    /\ task[UpId("Bot")].state = "NONE"

\* C2: the list a split request returns holds an item for a category exactly
\* when that category's generation result and upload result were both obtained
\* with success; the items are those upload results and nothing else.
C2_ItemsAreTheSucceededUnits ==
    SplitReturned =>
        /\ \A c \in CategoryKeys :
               (\E i \in 1..Len(response.items) : response.items[i].category = <<c>>)
                   <=> (GenOk(c) /\ UpOk(c))
        /\ \A i \in 1..Len(response.items) :
               \E c \in CategoryKeys :
                   /\ GenOk(c) /\ UpOk(c)
                   /\ response.items[i] = task[UpId(c)].result

\* C2 witness: both generations succeeded, Top's upload succeeded and Bot's
\* upload returned success = false; the list holds Top alone
C2_Witness ==
    /\ SplitReturned
    /\ GenOk("Top") /\ GenOk("Bot") /\ UpOk("Top")
    /\ waited[UpId("Bot")] = "result" /\ ~task[UpId("Bot")].result.success
    /\ Len(response.items) = 1

\* category d failed in one of the ways a unit can fail
UnitFailed(d) ==
    \/ waited[GenId(d)] \in {"raised", "timeout"}
    \/ waited[GenId(d)] = "result" /\ ~task[GenId(d)].result.success
    \/ waited[UpId(d)] \in {"raised", "timeout"}
    \/ waited[UpId(d)] = "result" /\ ~task[UpId(d)].result.success

\* C3: when a split request returns and a category d has failed (failure result,
\* exception after the retries, or timeout, in either stage), every other
\* category c was still awaited, was uploaded and awaited again if its
\* generation succeeded, and is in the list with its URL if its upload succeeded.
C3_SiblingIsolation ==
    SplitReturned =>
        \A c \in CategoryKeys, d \in CategoryKeys :
            (c # d /\ UnitFailed(d)) =>
                /\ waited[GenId(c)] # "no"
                /\ GenOk(c) => (task[UpId(c)].state # "NONE" /\ waited[UpId(c)] # "no")
                /\ (GenOk(c) /\ UpOk(c)) =>
                       \E i \in 1..Len(response.items) :
                           /\ response.items[i].category = <<c>>
                           /\ response.items[i].url # <<>>

\* C3 witness: Top's generation failed, Bot was generated and uploaded after
\* it, and the list holds exactly Bot
C3_Witness ==
    /\ SplitReturned
    /\ waited[GenId("Top")] = "result" /\ ~task[GenId("Top")].result.success
    /\ GenOk("Bot") /\ UpOk("Bot")
    /\ Len(response.items) = 1 /\ response.items[1].category = <<"Bot">>

\* C4: a split request that ends with no successful unit is answered with a
\* server error, never with a success response.
C4_TotalFailureIsServerError ==
    (reqKind = "split" /\ pc = "done" /\ response.items = <<>>) => response.code >= 500

\* C5: once a status record holds a terminal status, no later write changes
\* any of its fields.
C5_TerminalWriteOnce ==
    [][\A id \in TrackIds :
           tracker[id].status \in {"completed", "failed"} => tracker'[id] = tracker[id]]_vars

\* C6: the time a fan-in stage spends waiting is bounded by one per-unit
\* timeout, not by the sum of the timeouts of its handles.
C6_StageBoundedByOneTimeout ==
    timeoutSeconds.gen <= GetTimeout /\ timeoutSeconds.up <= GetTimeout

\* C7: a task that failed after exhausting its retries reaches the waiter as a
\* result value; get() on its handle does not raise the worker's exception.
C7_FailureIsNotRaised ==
    \A h \in TaskIds :
        (task[h].state = "FAILURE" /\ task[h].retries = MaxRetries
            /\ task[h].exc # "TimeLimitExceeded" /\ waited[h] \notin {"no", "timeout"})
            => waited[h] = "result"

\* C8: generate_image_task reports a unit as failed because of a transient error
\* or an empty result of the generative service only after the queue has retried
\* it up to the ceiling.
C8_TransientErrorIsRetried ==
    \A c \in CategoryKeys :
        LET t == task[GenId(c)]
        IN  (t.state = "SUCCESS" /\ ~t.result.success) => t.retries = MaxRetries

\* C9: request.retries never exceeds max_retries, the body of a task runs to its
\* end at most max_retries + 1 times (once, plus once per retry), and a task
\* whose last allowed execution has raised is FAILURE and runs no more.
C9_AttemptsBounded ==
    \A h \in TaskIds :
        /\ task[h].retries <= MaxRetries
        /\ Len(task[h].log) <= MaxRetries + 1
        /\ Len(task[h].log) <= task[h].retries + 1
        /\ (Len(task[h].log) = MaxRetries + 1
                /\ task[h].log[MaxRetries + 1] \in {"raise", "presign"})
               => task[h].state = "FAILURE"

\* C9 witness: an upload task that raised in its first execution and in both
\* retries, and has failed
C9_Witness ==
    \E h \in UploadIds :
        /\ task[h].state = "FAILURE"
        /\ task[h].retries = MaxRetries
        /\ task[h].log = <<"raise", "presign", "raise">>

RECURSIVE SuppliedUrls(_)
\* the number of URLs a clothing_urls list carries, over all of its elements
SuppliedUrls(urls) ==
    IF urls = <<>> THEN 0 ELSE Len(SplitOn(Head(urls), ",")) + SuppliedUrls(Tail(urls))

\* nothing was submitted, stored or recorded
NoSideEffect ==
    /\ \A h \in TaskIds : task[h].state = "NONE"
    /\ store = {}
    /\ \A id \in TrackIds : tracker[id] = NoRecord

\* C10: a try-on request carrying more than 3 clothing URLs, or none, is
\* answered 4xx without any side effect.
C10_TooManyUrlsRejected ==
    (reqKind = "tryon" /\ pc # "validate"
        /\ (SuppliedUrls(clothing_urls) > MaxClothingItems \/ clothing_urls = <<>>))
        => (response.code \in 400..499 /\ NoSideEffect /\ pc = "done")

\* the upload wait of the try-on request ended without a successful upload
TryonUploadFailed ==
    \/ waited[UpId("tryon")] \in {"timeout", "raised"}
    \/ waited[UpId("tryon")] = "result" /\ ~task[UpId("tryon")].result.success

\* the messages of an exception that leaves the upload wait
UploadStageErrors == {"TimeoutError", "S3Error", "TimeLimitExceeded", "Failed to upload to MinIO"}

\* the messages of a failed generation check
GenerationErrors == (TryonOutcomes \ {"image"}) \cup {"Generation failed"}

TryonAllSucceeded ==
    /\ TryonValidationError(human_image, clothing_urls) = ""
    /\ tryon.result.success
    /\ waited[UpId("tryon")] = "result"
    /\ task[UpId("tryon")].result.success

\* C12: a finished try-on request has answered 200 exactly when validation,
\* generation and upload all succeeded, and an error otherwise; a 200 carries
\* the URL of an object that is in the bucket under the key of the request.
C12_NoPartialSuccess ==
    (reqKind = "tryon" /\ pc = "done")
        => /\ response.code = 200 <=> TryonAllSucceeded
           /\ response.code # 200 => response.code \in 400..599 /\ response.url = <<>>
           /\ response.code = 200 =>
                  \E o \in store :
                      /\ o.key = TryonFileName(tryon.task_id)
                      /\ o.bytes = tryon.result.image_bytes
                      /\ response.url = PresignedUrl(o.bucket, o.key)

\* C12 witness: a try-on request answered 200 with a URL
C12_Witness ==
    /\ reqKind = "tryon" /\ pc = "done"
    /\ response.code = 200
    /\ response.url # <<>>

\* C13: the item list a split request returns has at most as many items as
\* categories were submitted, and no two items of the same category.
C13_AtMostOneItemPerCategory ==
    SplitReturned =>
        /\ Len(response.items) <= Len(generation_tasks)
        /\ Len(generation_tasks) = Len(Categories)
        /\ \A i, j \in 1..Len(response.items) :
               i # j => response.items[i].category # response.items[j].category

\* C13 witness: a split request returned one item for every category
C13_Witness ==
    /\ SplitReturned
    /\ Len(response.items) = Len(Categories)
    /\ \A c \in CategoryKeys : \E i \in 1..Len(response.items) : response.items[i].category = <<c>>

\* the bucket holds, under the key of every returned item, the bytes this
\* request generated for the unit of that item
ItemsHoldGeneratedBytes ==
    /\ reqKind = "split" =>
           \A i \in 1..Len(response.items) :
               \E o \in store, c \in CategoryKeys :
                   /\ response.items[i].category = <<c>>
                   /\ o.bucket = Bucket /\ o.key = response.items[i].filename
                   /\ o.bytes = task[GenId(c)].result.image_bytes
    /\ reqKind = "tryon" =>
           \E o \in store :
               /\ o.bucket = Bucket /\ o.key = TryonFileName(tryon.task_id)
               /\ o.bytes = tryon.result.image_bytes

\* C14: when a request answers with items (or a result URL), the object under
\* the key of every item holds the bytes generated for that unit in this
\* request, whatever other requests and task executions have done to the bucket.
C14_StoredBytesAreTheGeneratedBytes ==
    [][(pc # "done" /\ pc' = "done" /\ response'.code = 200)
           => ItemsHoldGeneratedBytes']_vars

\* C15: no two executions of the same upload task (the first attempt and its
\* retries) write to the same object key.
C15_RetriesUseFreshKeys ==
    \A h \in UploadIds :
        \A i, j \in 1..Len(task[h].puts) :
            i # j => task[h].puts[i] # task[h].puts[j]

\* C16: every call of the generative model is made by a worker of the task
\* queue, none by a request handler.
C16_GenerationOnlyInWorkers ==
    \A call \in generativeCalls : call[1] = "worker"

\* C17: the record of a try-on request exists from the start of its pipeline, is
\* pending or processing while the request is served, completed with the result
\* URL once the request has answered with that URL, and failed with the error
\* once a stage has failed.
C17_TrackerFollowsStages ==
    (reqKind = "tryon" /\ tryon.task_id # "")
        => LET record == tracker[tryon.task_id]
           IN  /\ pc = "generate" => record.status \in {"pending", "processing"}
               /\ pc = "wait_upload" => record.status = "processing"
               /\ (pc = "done" /\ response.code = 200)
                      => record.status = "completed" /\ record.result_url = response.url
               /\ (pc = "done" /\ response.code # 200)
                      => record.status = "failed" /\ record.error # ""

\* C18: a step that changes the record of a task id is the failure write for the
\* task being served: it sets status to failed, leaves the fields other than
\* status, error and updated_at as they were, and leaves every other record as
\* it was.
C18_FailureWriteIsPartialMerge ==
    [][\A id \in TrackIds :
           tracker'[id] # tracker[id]
               => /\ id = (IF reqKind = "task" THEN "t2" ELSE tryon.task_id)
                  /\ tracker'[id].status = "failed"
                  /\ tracker'[id].result_url = tracker[id].result_url
                  /\ tracker'[id].created_at = tracker[id].created_at
                  /\ \A other \in TrackIds \ {id} : tracker'[other] = tracker[other]]_vars

\* C18 witness: the failure write of generate_tryon_image_task has hit a record
\* its submitter had registered, next to the record of another task
C18_Witness ==
    /\ reqKind = "task"
    /\ tracker["t2"].status = "failed"
    /\ tracker["t2"].created_at = PendingRecord.created_at
    /\ tracker["t2"].updated_at >= 0
    /\ tracker["t1"] = PendingRecord

\* the input of the request is malformed in one of the ways the error surface
\* names: an empty, undecodable, unsupported or too small image, no clothing
\* URL, or more than 3 of them
MalformedInput ==
    \/ reqKind \in {"split", "tryon"} /\ human_image # "jpeg"
    \/ reqKind = "tryon" /\ SuppliedUrls(clothing_urls) = 0
    \/ reqKind = "tryon" /\ SuppliedUrls(clothing_urls) > MaxClothingItems

\* the handler has taken its first step
RequestStarted ==
    \/ reqKind = "split" /\ (pc # "submit_gen" \/ generation_tasks # <<>>)
    \/ reqKind = "tryon" /\ pc # "validate"

\* C19: a request with malformed input is answered 4xx and nothing is submitted
\* for it; a well-formed request whose pipeline failed (try-on: any stage;
\* split: every unit) is answered 5xx.
C19_ErrorClasses ==
    /\ (MalformedInput /\ RequestStarted)
           => /\ pc = "done"
              /\ response.code \in 400..499
              /\ \A h \in TaskIds : task[h].state = "NONE"
    /\ (~MalformedInput /\ reqKind = "tryon" /\ pc = "done"
            /\ TryonValidationError(human_image, clothing_urls) = ""
            /\ ~TryonAllSucceeded)
           => response.code \in 500..599
    /\ (~MalformedInput /\ reqKind = "split" /\ pc = "done"
            /\ \A c \in CategoryKeys : UnitFailed(c))
           => response.code \in 500..599

\* the returned items hold nothing for unit c
NoItemFor(items, c) == \A i \in 1..Len(items) : items[i].category # <<c>>

\* C20: once the wait on a handle has timed out, the handler never waits on it
\* again and never touches the task, which stays with the workers; no upload is
\* submitted for a generation it timed out on, no item is returned for the
\* unit, and a response, once produced, never changes.
C20_LateResultIsDiscarded ==
    [][/\ \A h \in TaskIds :
              waited[h] = "timeout"
                  => /\ waited'[h] = "timeout"
                     /\ task'[h] # task[h] => UNCHANGED <<pc, idx, response, waited>>
                     /\ h[1] = "gen" => task'[UpId(h[2])].state = "NONE"
                     /\ NoItemFor(generated_items', h[2])
                     /\ NoItemFor(response'.items, h[2])
                     /\ (h = UpId("tryon") /\ pc' = "done") => response'.code = 500
       /\ pc = "done" => response' = response]_vars

\* C20 witness: the wait on Top's upload timed out, the worker completed the
\* upload afterwards, and the request returned without an item for Top
C20_Witness ==
    /\ SplitReturned
    /\ waited[UpId("Top")] = "timeout"
    /\ task[UpId("Top")].state = "SUCCESS" /\ task[UpId("Top")].result.success
    /\ NoItemFor(response.items, "Top")

\* the upload handles the request holds are for distinct categories, one per
\* consumed generation result at most
OneUploadPerUnit ==
    /\ Len(upload_tasks) <= Len(generated_results)
    /\ \A i, j \in 1..Len(upload_tasks) :
           i # j => /\ upload_tasks[i][1] # upload_tasks[j][1]
                    /\ upload_tasks[i][2] # upload_tasks[j][2]
    /\ \A i, j \in 1..Len(generated_results) :
           i # j => generated_results[i][1] # generated_results[j][1]

\* C21: within a request no unit gets a second upload task: the upload handles
\* are for distinct categories, each for one consumed generation result, and an
\* upload task is only ever submitted for a unit that had none, whatever the
\* generation tasks did.
C21_OneUploadPerUnit ==
    [][/\ OneUploadPerUnit'
       /\ \A h \in UploadIds :
              (task'[h].state = "PENDING" /\ task[h] # task'[h])
                  => task[h].state = "NONE"]_vars

\* C21 witness: both generations succeeded and the request holds one upload
\* handle for each category
C21_Witness ==
    /\ reqKind = "split"
    /\ Len(upload_tasks) = Len(Categories)
    /\ \A c \in CategoryKeys : task[UpId(c)].state # "NONE"
    /\ pc = "wait_up"

\* the step is an upload execution of another request
StepOfOtherRequest == \E o \in store' \ store : o.bytes[1] = "other"

RECURSIVE OwnItems(_)
\* the upload results of the categories whose generation result and upload
\* result this request obtained with success, in the order of the categories
OwnItems(cats) ==
    IF cats = <<>>
    THEN <<>>
    ELSE (IF GenOk(Head(cats)) /\ UpOk(Head(cats))
          THEN <<task[UpId(Head(cats))].result>>
          ELSE <<>>) \o OwnItems(Tail(cats))

\* what this request answers once it is done, from what its own waits obtained
OwnOutcome ==
    pc = "done" =>
        /\ SplitReturned => response.items = OwnItems(Categories)
        /\ reqKind = "tryon" => (response.code = 200 <=> TryonAllSucceeded)
        /\ (reqKind = "tryon" /\ response.code = 200)
               => response.url = task[UpId("tryon")].result.url

RedeliveredStep(h) == task'[h].redelivered = task[h].redelivered + 1

\* C23: one more execution of a task body on the same arguments is harmless:
\* after an upload that stored its object, the second execution leaves the
\* bucket as it was, writes no key but the one of its arguments, and the result
\* of the task stays the one for that key and category; one more execution of a
\* generation changes neither what the request has collected nor what it
\* answers, and the items it returns are those its results determine.
C23_ReExecutionIsHarmless ==
    [][/\ \A h \in UploadIds :
              RedeliveredStep(h)
                  => /\ task[h].result.success => store' = store
                     /\ \A o \in store' \ store :
                            o.key = task[h].args.file_name
                                /\ o.bytes = task[h].args.image_bytes
                     /\ task'[h].result = task[h].result
       /\ \A c \in CategoryKeys :
              RedeliveredStep(GenId(c))
                  => /\ task'[GenId(c)].result = task[GenId(c)].result
                     /\ UNCHANGED <<store, generated_results, upload_tasks,
                                    generated_items, response, waited>>
       /\ SplitReturned' => response'.items = OwnItems(Categories)']_vars

\* C23 witness: Top's upload was executed a second time, wrote its object
\* again, and the request returned an item for every category
C23_Witness ==
    /\ SplitReturned
    /\ task[UpId("Top")].redelivered > 0
    /\ Len(task[UpId("Top")].puts) > 1
    /\ Len(response.items) = Len(Categories)

\* the wait on handle h has ended: by a result, an exception or a timeout
WaitEnded(h) == waited[h] # "no"

\* C24: in a split request the generation handles are one per category, in the
\* order of the categories; the first generation wait comes after the last
\* generation submission; an upload task exists only once the wait on every
\* generation handle has ended; and the list is returned only once the wait on
\* every generation handle and on every upload handle has ended.
C24_StagesInOrder ==
    reqKind = "split" =>
        /\ Len(generation_tasks) <= Len(Categories)
        /\ \A i \in 1..Len(generation_tasks) :
               generation_tasks[i] = <<Categories[i], GenId(Categories[i])>>
        /\ (pc \in {"wait_gen", "submit_up", "wait_up"} \/ SplitReturned)
               => Len(generation_tasks) = Len(Categories)
        /\ (\E c \in CategoryKeys : WaitEnded(GenId(c)))
               => \A c \in CategoryKeys : task[GenId(c)].state # "NONE"
        /\ (\E c \in CategoryKeys : task[UpId(c)].state # "NONE")
               => \A c \in CategoryKeys : WaitEnded(GenId(c))
        /\ SplitReturned
               => /\ \A c \in CategoryKeys : WaitEnded(GenId(c))
                  /\ \A i \in 1..Len(upload_tasks) : WaitEnded(upload_tasks[i][2])
                  /\ \A c \in CategoryKeys : task[UpId(c)].state # "NONE" => WaitEnded(UpId(c))

\* C24 witness: the request returned after its waits on both generations and on
\* both uploads had ended, the last of them by an exception
C24_Witness ==
    /\ SplitReturned
    /\ \A c \in CategoryKeys : WaitEnded(GenId(c)) /\ WaitEnded(UpId(c))
    /\ waited[UpId("Bot")] = "raised"

\* C25: whatever the workers do, a split request and a try-on request
\* eventually return to their caller.
C25_HandlersReturn == <>(pc = "done")

\* C26: the handler calls get() on a handle at most once, only on a handle of
\* a task it has submitted, and when a pipeline returns to its caller every
\* handle it has submitted has been awaited.
C26_HandlesAwaitedOnce ==
    /\ \A h \in TaskIds :
           /\ awaits[h] <= 1
           /\ awaits[h] = 1 <=> WaitEnded(h)
           /\ awaits[h] = 1 => task[h].state # "NONE"
    /\ (pc = "done" /\ response.code = 200 /\ reqKind \in {"split", "tryon"})
           => \A h \in TaskIds : task[h].state # "NONE" => awaits[h] = 1

\* C26 witness: a split request returned after one get() on each of its four
\* handles, the one on Top's upload ending by timeout
C26_Witness ==
    /\ SplitReturned
    /\ \A c \in CategoryKeys : awaits[GenId(c)] = 1 /\ awaits[UpId(c)] = 1
    /\ waited[UpId("Top")] = "timeout"

\* C27: the record of a try-on task shows failed only when the task has ended
\* in failure: the task has failed for good, or has returned a failure result;
\* never while a retry is still to come, and never next to a successful result.
C27_FailedOnlyWhenFinal ==
    (reqKind = "task" /\ tracker[task[TryonTaskId].args.task_id].status = "failed")
        => \/ task[TryonTaskId].state = "FAILURE"
           \/ task[TryonTaskId].state = "SUCCESS" /\ ~task[TryonTaskId].result.success

RECURSIVE AllSuppliedUrls(_)
\* the URLs a clothing_urls list carries, over all of its elements, in order
AllSuppliedUrls(urls) ==
    IF urls = <<>> THEN <<>> ELSE SplitOn(Head(urls), ",") \o AllSuppliedUrls(Tail(urls))

\* C28: a try-on request that is past validation either was rejected or hands
\* to the generation every URL its caller supplied, in order, and then these
\* are between 1 and 3; a request supplying more than 3 URLs is rejected.
C28_EverySuppliedUrlCounts ==
    (reqKind = "tryon" /\ pc # "validate")
        => /\ tryon.task_id # ""
                  => /\ tryon.clothing_urls = AllSuppliedUrls(clothing_urls)
                     /\ Len(AllSuppliedUrls(clothing_urls)) \in 1..MaxClothingItems
           /\ tryon.task_id = "" => response.code \in 400..499

\* the response of the request names the object stored under key
ReportedInResponse(key) ==
    /\ response.code = 200
    /\ \/ \E i \in 1..Len(response.items) : response.items[i].filename = key
       \/ response.url = PresignedUrl(Bucket, key)

\* C29: once a request has answered, every object an upload task of the
\* request has written to the bucket is named in the response: a request that
\* answers with an error, or without a unit, leaves no object for it, then or
\* later.
C29_NoOrphanObjects ==
    pc = "done" =>
        \A h \in UploadIds :
            \A i \in 1..Len(task[h].puts) : ReportedInResponse(task[h].puts[i])

\* item is what the upload of the bytes generated for category c returns
ItemOfUnit(item, c) ==
    /\ item.category = <<c>>
    /\ \E suffix \in Suffixes : item.filename = SplitFileName(c, suffix)
    /\ task[UpId(c)].args.file_name = item.filename
    /\ task[UpId(c)].args.image_bytes = task[GenId(c)].result.image_bytes
    /\ task[GenId(c)].args.category = c

\* C30: every item a split request returns carries the category of the unit
\* whose generation produced the uploaded bytes, its filename is
\* generated_<category>_<suffix>.jpg, and the items follow the order of the
\* categories (Top before Bot).
C30_ItemsMatchTheirUnits ==
    SplitReturned =>
        /\ \A i \in 1..Len(response.items) :
               \E c \in CategoryKeys : ItemOfUnit(response.items[i], c)
        /\ \A i, j \in 1..Len(response.items) :
               i < j =>
                   \E a, b \in 1..Len(Categories) :
                       /\ a < b
                       /\ response.items[i].category = <<Categories[a]>>
                       /\ response.items[j].category = <<Categories[b]>>

\* C30 witness: a split request returned the Top item before the Bot item,
\* each under a file name built from its category
C30_Witness ==
    /\ SplitReturned
    /\ Len(response.items) = 2
    /\ ItemOfUnit(response.items[1], "Top")
    /\ ItemOfUnit(response.items[2], "Bot")
    /\ response.items[1].filename # response.items[2].filename

====
